---- MODULE Spec2Model ----
(***************************************************************************)
(* Construction Pro (src/main.py): a Streamlit script that is re-run from  *)
(* top to bottom on every interaction.  Each run loads three CSV files     *)
(* into DataFrames and then executes the branch of the selected menu       *)
(* entry; the submit branches append rows and write the whole table back.  *)
(*                                                                         *)
(* Numbers are Python floats in the program.  The model keeps them in      *)
(* fixed point, in half units (Rs(x) is x rupees), which is exact for the  *)
(* values used here: whole-rupee amounts and the attendance codes 1.0,     *)
(* 0.5 and 0.0.                                                            *)
(***************************************************************************)
EXTENDS Integers, Sequences, FiniteSets, TLC

VARIABLES
    fs,        \* the working directory: file name -> CSV file
    df_labor,  \* module-level DataFrame of the last script run
    df_exp,    \* module-level DataFrame of the last script run
    df_prog,   \* module-level DataFrame of the last script run
    screen,    \* what the last script run rendered
    sess,      \* concurrent sessions: each one's position, own tables, last
               \* message and the number of rows its last run saved
    acked      \* concurrent sessions: rows whose submission showed success

vars == <<fs, df_labor, df_exp, df_prog, screen, sess, acked>>

----------------------------------------------------------------------------
(* Bounds of the model *)

\* Single Entry / Expense submissions are explored while the two ledgers
\* together hold fewer rows than this; a Bulk submission may start from a
\* ledger of up to this many rows (and at most doubles it).
MaxRows == 2

\* Two sessions: submissions are explored while fewer than this many have
\* shown success.
MaxAcked == 2

\* Files found at start-up: the most data lines of labor.csv and of
\* expenses.csv.
MaxLaborLines == 2
MaxExpLines == 2

----------------------------------------------------------------------------
(* Values *)

Rs(x) == 2 * x

Range(s) == {s[i] : i \in 1..Len(s)}

\* A DataFrame cell: a str, a float, NaN, or a datetime.date object.
Str(s)  == [k |-> "str",  s |-> s,  n |-> 0]
Num(n)  == [k |-> "num",  s |-> "", n |-> n]
NaN     == [k |-> "nan",  s |-> "", n |-> 0]
Date(d) == [k |-> "date", s |-> d,  n |-> 0]

\* A CSV field is text; a numeral is text that reads as the number n.
Text(s)    == [t |-> "text",    s |-> s,  n |-> 0]
Numeral(n) == [t |-> "numeral", s |-> "", n |-> n]

LABOR_FILE    == "labor.csv"
EXPENSE_FILE  == "expenses.csv"
PROGRESS_FILE == "site_diary.csv"

LaborCols == <<"Date", "Worker", "Role", "Wage", "Attendance", "Paid_Today", "Notes">>
ExpCols   == <<"Date", "Item", "Category", "Cost", "Paid_To">>
ProgCols  == <<"Date", "Work_Description">>

numeric_cols == {"Wage", "Attendance", "Paid_Today", "Cost", "Earned"}

\* Strings pandas.read_csv reads as missing (its default na_values),
\* restricted to the ones that occur in the model.
NaValues == {"", "NA", "nan", "null"}

NoFile == [exists |-> FALSE, header |-> <<>>, lines |-> <<>>]

----------------------------------------------------------------------------
(* DataFrame <-> CSV *)

\* DataFrame.to_csv writes one cell: str as is, a date as its ISO text,
\* a float as its repr, NaN as the empty field.
FormatCell(c) ==
    CASE c.k = "str"  -> Text(c.s)
      [] c.k = "date" -> Text(c.s)
      [] c.k = "num"  -> Numeral(c.n)
      [] c.k = "nan"  -> Text("")

\* pandas.read_csv reads one field: a numeral as a number, an NA string as
\* NaN, any other text as str.  (Text columns of the model never hold
\* numerals, so the per-column dtype inference does not change a cell.)
ParseField(f) ==
    IF f.t = "numeral" THEN Num(f.n)
    ELSE IF f.s \in NaValues THEN NaN
    ELSE Str(f.s)

\* pd.to_numeric(errors='coerce') on one cell.
to_numeric(c) == IF c.k = "num" THEN c ELSE NaN

\* Variant: the missing cells are left missing.
fillna_skipped(c, v) == c

\* Series.fillna(v) on one cell.
fillna(c, v) == IF c.k = "nan" THEN Num(v) ELSE c

EmptyDf(columns) == [columns |-> columns, rows |-> <<>>]

\* df.to_csv(filename, index=False): header line, then one line per row
\* with the cells in column order.
ToCsv(df) ==
    [exists |-> TRUE,
     header |-> df.columns,
     lines  |-> [i \in 1..Len(df.rows) |->
                   [j \in 1..Len(df.columns) |->
                      FormatCell(df.rows[i][df.columns[j]])]]]

save_data(dir, df, filename) == [dir EXCEPT ![filename] = ToCsv(df)]

\* pd.read_csv(filename): a field missing at the end of a short line is NaN.
ReadCsv(file) ==
    [columns |-> file.header,
     rows    |-> [i \in 1..Len(file.lines) |->
                    [c \in Range(file.header) |->
                       LET j == CHOOSE x \in 1..Len(file.header) : file.header[x] = c
                       IN  IF j <= Len(file.lines[i])
                           THEN ParseField(file.lines[i][j])
                           ELSE NaN]]]

\* The loop of load_data over numeric_cols.
FixNumbers(df) ==
    [df EXCEPT !.rows =
        [i \in 1..Len(df.rows) |->
           [c \in Range(df.columns) |->
              IF c \in numeric_cols
              THEN fillna(to_numeric(df.rows[i][c]), 0)
              ELSE df.rows[i][c]]]]

\* load_data: the table it returns ...
load_data(dir, filename, columns) ==
    IF ~dir[filename].exists
    THEN EmptyDf(columns)
    ELSE FixNumbers(ReadCsv(dir[filename]))

\* ... and the directory it leaves (a missing file is created, header only).
load_data_fs(dir, filename, columns) ==
    IF ~dir[filename].exists
    THEN save_data(dir, EmptyDf(columns), filename)
    ELSE dir

\* Lines 36-38: the three loads at the top of every script run.
LoadAll(dir) ==
    load_data_fs(load_data_fs(load_data_fs(dir, LABOR_FILE, LaborCols),
                              EXPENSE_FILE, ExpCols),
                 PROGRESS_FILE, ProgCols)

\* Variant: the new frame replaces the table instead of extending it.
Concat_replacing(df, new) == new

\* pd.concat([df, pd.DataFrame(new_rows)], ignore_index=True): the columns
\* of df, then the new ones; a cell a row does not have is NaN.
Concat(df, new) ==
    LET extra == SelectSeq(new.columns, LAMBDA c : c \notin Range(df.columns))
        cols  == df.columns \o extra
        all   == df.rows \o new.rows
    IN  [columns |-> cols,
         rows    |-> [i \in 1..Len(all) |->
                        [c \in Range(cols) |->
                           IF c \in DOMAIN all[i] THEN all[i][c] ELSE NaN]]]

\* pd.DataFrame(list of dicts): the columns are the keys of the dicts, in
\* the order written; an empty list gives a frame without columns.
FrameOf(rows, columns) ==
    IF rows = <<>> THEN EmptyDf(<<>>) ELSE [columns |-> columns, rows |-> rows]

----------------------------------------------------------------------------
(* Dashboard calculations *)

\* Multiplication of two fixed-point numbers.
Mul(a, b) == (a * b) \div 2

RECURSIVE SumCol(_, _)
\* Series.sum() of a numeric column.
SumCol(rows, col) ==
    IF rows = <<>> THEN 0 ELSE Head(rows)[col].n + SumCol(Tail(rows), col)

\* Line 49: df_labor["Earned"] = df_labor["Wage"] * df_labor["Attendance"].
WithEarned(df) ==
    LET cols == IF "Earned" \in Range(df.columns) THEN df.columns
                ELSE Append(df.columns, "Earned")
    IN  [columns |-> cols,
         rows    |-> [i \in 1..Len(df.rows) |->
                        [c \in Range(cols) |->
                           IF c = "Earned"
                           THEN Num(Mul(df.rows[i]["Wage"].n, df.rows[i]["Attendance"].n))
                           ELSE df.rows[i][c]]]]

\* The strings that occur as group keys, in the order pandas sorts them.
Lexicon == <<"Food", "Material", "Other", "Ram", "Sita", "Transport">>

\* The keys of df.groupby(col): the distinct values, NaN dropped, sorted.
GroupKeys(df, col) ==
    LET keys == {df.rows[i][col].s : i \in {x \in 1..Len(df.rows) : df.rows[x][col].k = "str"}}
    IN  SelectSeq(Lexicon, LAMBDA s : s \in keys)

\* The rows of one group.
Group(df, col, key) ==
    SelectSeq(df.rows, LAMBDA r : r[col].k = "str" /\ r[col].s = key)

\* Variant: the 'Labor Payments' row carries the material total.
SpendingData_material(exp, total_labor_paid) ==
    LET keys == GroupKeys(exp, "Category")
    IN  Append([i \in 1..Len(keys) |->
                  [Category |-> keys[i],
                   Cost     |-> SumCol(Group(exp, "Category", keys[i]), "Cost")]],
               [Category |-> "Labor Payments", Cost |-> SumCol(exp.rows, "Cost")])

\* Lines 70-71: cost per category, then the row 'Labor Payments'.
SpendingData(exp, total_labor_paid) ==
    LET keys == GroupKeys(exp, "Category")
    IN  Append([i \in 1..Len(keys) |->
                  [Category |-> keys[i],
                   Cost     |-> SumCol(Group(exp, "Category", keys[i]), "Cost")]],
               [Category |-> "Labor Payments", Cost |-> total_labor_paid])

\* Lines 77-78: per worker, Earned and Paid_Today summed, and their difference.
WorkerSummary(labor) ==
    LET keys == GroupKeys(labor, "Worker")
    IN  [i \in 1..Len(keys) |->
           [Worker      |-> keys[i],
            Balance_Due |-> SumCol(Group(labor, "Worker", keys[i]), "Earned")
                            - SumCol(Group(labor, "Worker", keys[i]), "Paid_Today")]]

\* Variant: the threshold is inclusive.
PendingFilter_inclusive(summary) ==
    SelectSeq(summary, LAMBDA r : r.Balance_Due >= Rs(10))

\* Line 79: show only if more than 10 rs are due.
PendingFilter(summary) == SelectSeq(summary, LAMBDA r : r.Balance_Due > Rs(10))

\* Line 80: sort_values("Balance_Due", ascending=False).  The default sort
\* is not stable, so rows of equal balance may come out in either order.
SortValuesDesc(seq) ==
    {[i \in 1..Len(seq) |-> seq[p[i]]] :
        p \in {q \in [1..Len(seq) -> 1..Len(seq)] :
                 /\ \A i, j \in 1..Len(seq) : i # j => q[i] # q[j]
                 /\ \A i \in 1..Len(seq) - 1 :
                       seq[q[i]].Balance_Due >= seq[q[i + 1]].Balance_Due}}

\* Lines 76-80.
PendingDues(labor) ==
    IF labor.rows = <<>> THEN {<<>>}
    ELSE SortValuesDesc(PendingFilter(WorkerSummary(labor)))

----------------------------------------------------------------------------
(* Script runs, one session *)

\* A page without metrics: the message it shows (st.warning, st.error,
\* st.success), if any.
Page(msg, marked) ==
    [msg |-> msg, marked |-> marked,
     grand_total |-> 0, total_material |-> 0, total_labor_paid |-> 0,
     total_labor_earned |-> 0,
     labor_due |-> 0, spending_data |-> <<>>, pending |-> <<>>]

NumRows(dir) ==
    (IF dir[LABOR_FILE].exists THEN Len(dir[LABOR_FILE].lines) ELSE 0)
    + (IF dir[EXPENSE_FILE].exists THEN Len(dir[EXPENSE_FILE].lines) ELSE 0)

\* Lines 35-38 followed by a branch that only renders.
Loaded ==
    /\ df_prog' = load_data(fs, PROGRESS_FILE, ProgCols)
    /\ UNCHANGED <<sess, acked>>

\* Variant: the due amount is clamped at zero.
LaborDue_clamped(total_labor_earned, total_labor_paid) ==
    IF total_labor_earned > total_labor_paid
    THEN total_labor_earned - total_labor_paid ELSE 0

\* Line 52.
LaborDue(total_labor_earned, total_labor_paid) ==
    total_labor_earned - total_labor_paid

\* Lines 45-80.
Dashboard ==
    LET labor  == WithEarned(load_data(fs, LABOR_FILE, LaborCols))
        exp    == load_data(fs, EXPENSE_FILE, ExpCols)
        total_labor_paid   == SumCol(labor.rows, "Paid_Today")
        total_labor_earned == SumCol(labor.rows, "Earned")
        labor_due          == LaborDue(total_labor_earned, total_labor_paid)
        total_material     == SumCol(exp.rows, "Cost")
        grand_total        == total_material + total_labor_paid
    IN  /\ Loaded
        /\ fs' = LoadAll(fs)
        /\ df_labor' = labor
        /\ df_exp' = exp
        /\ \E pending \in PendingDues(labor) :
              screen' = [msg |-> "", marked |-> 0,
                         grand_total |-> grand_total,
                         total_material |-> total_material,
                         total_labor_paid |-> total_labor_paid,
                         total_labor_earned |-> total_labor_earned,
                         labor_due |-> labor_due,
                         spending_data |-> SpendingData(exp, total_labor_paid),
                         pending |-> pending]

\* Series.unique().tolist(): the distinct cells in order of first appearance.
Unique(df, col) ==
    LET first(i) == \A j \in 1..(i - 1) : df.rows[j][col] # df.rows[i][col]
        idx == SelectSeq([i \in 1..Len(df.rows) |-> i], first)
    IN  [i \in 1..Len(idx) |-> df.rows[idx[i]][col]]

\* Variant: every name passes the check.
Truthy_always(c) == TRUE

\* Python truth value of a cell: '' and 0 are false, NaN is true.
Truthy(c) == ~(c.k = "str" /\ c.s = "") /\ ~(c.k = "num" /\ c.n = 0)

\* What st.multiselect can return: the options picked, in the order picked.
Selections(options) ==
    UNION {{q \in [1..n -> Range(options)] : \A i, j \in 1..n : i # j => q[i] # q[j]} :
              n \in 0..Len(options)}

\* Variant: the wage is entered as paid.
BulkRows_paid(date_in, selected, wage, att) ==
    [i \in 1..Len(selected) |->
       [Date |-> Date(date_in), Worker |-> selected[i], Role |-> Str("Regular"),
        Wage |-> Num(wage), Attendance |-> Num(att), Paid_Today |-> Num(wage),
        Notes |-> Str("Bulk")]]

\* Lines 99-104.
BulkRows(date_in, selected, wage, att) ==
    [i \in 1..Len(selected) |->
       [Date |-> Date(date_in), Worker |-> selected[i], Role |-> Str("Regular"),
        Wage |-> Num(wage), Attendance |-> Num(att), Paid_Today |-> Num(0),
        Notes |-> Str("Bulk")]]

\* Lines 83-97 without a submission: the page, with the warning of line 88.
BulkPage ==
    LET labor == load_data(fs, LABOR_FILE, LaborCols)
    IN  /\ Loaded
        /\ fs' = LoadAll(fs)
        /\ df_labor' = labor
        /\ df_exp' = load_data(fs, EXPENSE_FILE, ExpCols)
        /\ screen' = Page(IF Unique(labor, "Worker") = <<>>
                          THEN "No workers found." ELSE "", 0)

\* Lines 83-107 with "Mark Present" pressed.
BulkSubmit(date_in, selected, wage, att) ==
    LET labor == load_data(fs, LABOR_FILE, LaborCols)
        new   == Concat(labor, FrameOf(BulkRows(date_in, selected, wage, att), LaborCols))
    IN  /\ NumRows(fs) <= MaxRows
        /\ selected \in Selections(Unique(labor, "Worker"))
        /\ Loaded
        /\ df_labor' = new
        /\ df_exp' = load_data(fs, EXPENSE_FILE, ExpCols)
        /\ fs' = save_data(LoadAll(fs), new, LABOR_FILE)
        /\ screen' = Page("Marked workers!", Len(selected))

\* Lines 137-140.
SingleRow(d_date, final_name, wage, att, paid) ==
    [Date |-> Date(d_date), Worker |-> final_name, Role |-> Str("Labor"),
     Wage |-> Num(wage), Attendance |-> Num(att), Paid_Today |-> Num(paid),
     Notes |-> Str("Single")]

\* Lines 114-121: the name the form is for.
FinalNames(labor, mode, typed) ==
    LET existing == Unique(labor, "Worker")
    IN  IF mode = "Existing Worker"
        THEN (IF existing # <<>> THEN Range(existing) ELSE {Str("")})
        ELSE {Str(typed)}

\* Lines 110-131 without a submission.
SinglePage ==
    /\ Loaded
    /\ fs' = LoadAll(fs)
    /\ df_labor' = load_data(fs, LABOR_FILE, LaborCols)
    /\ df_exp' = load_data(fs, EXPENSE_FILE, ExpCols)
    /\ screen' = Page("", 0)

\* Lines 110-143 with "Save Entry" pressed.
SingleSubmit(mode, typed, final_name, d_date, wage, att, paid) ==
    LET labor == load_data(fs, LABOR_FILE, LaborCols)
        new   == Concat(labor, FrameOf(<<SingleRow(d_date, final_name, wage, att, paid)>>,
                                       LaborCols))
    IN  /\ NumRows(fs) < MaxRows
        /\ final_name \in FinalNames(labor, mode, typed)
        /\ Loaded
        /\ df_exp' = load_data(fs, EXPENSE_FILE, ExpCols)
        /\ IF ~Truthy(final_name)
           THEN /\ df_labor' = labor
                /\ fs' = LoadAll(fs)
                /\ screen' = Page("Name is required!", 0)
           ELSE /\ df_labor' = new
                /\ fs' = save_data(LoadAll(fs), new, LABOR_FILE)
                /\ screen' = Page("Saved!", 0)

\* Lines 158-160.
ExpenseRow(d_date, item, cat, cost) ==
    [Date |-> Date(d_date), Item |-> Str(item), Category |-> Str(cat),
     Cost |-> Num(cost), Paid_To |-> Str("")]

\* Lines 146-165 without a submission.
ExpensePage ==
    /\ Loaded
    /\ fs' = LoadAll(fs)
    /\ df_labor' = load_data(fs, LABOR_FILE, LaborCols)
    /\ df_exp' = load_data(fs, EXPENSE_FILE, ExpCols)
    /\ screen' = Page("", 0)

\* Lines 146-165 with "Save Expense" pressed.
ExpenseSubmit(d_date, item, cat, cost) ==
    LET exp == load_data(fs, EXPENSE_FILE, ExpCols)
        new == Concat(exp, FrameOf(<<ExpenseRow(d_date, item, cat, cost)>>, ExpCols))
    IN  /\ NumRows(fs) < MaxRows
        /\ Loaded
        /\ df_labor' = load_data(fs, LABOR_FILE, LaborCols)
        /\ df_exp' = new
        /\ fs' = save_data(LoadAll(fs), new, EXPENSE_FILE)
        /\ screen' = Page("Expense Saved!", 0)

\* Lines 168-178.
Reports ==
    /\ Loaded
    /\ fs' = LoadAll(fs)
    /\ df_labor' = load_data(fs, LABOR_FILE, LaborCols)
    /\ df_exp' = load_data(fs, EXPENSE_FILE, ExpCols)
    /\ screen' = Page("", 0)

----------------------------------------------------------------------------
(* Inputs *)

D1 == "2026-11-01"
D2 == "2026-11-02"

\* Attendance codes: 1.0, 0.5, 0.0.
FullDay == Rs(1)
HalfDay == 1
Absent  == 0

TypedNames == {"", "Ram", "Sita", "NA"}
Modes == {"Existing Worker", "New Worker"}

\* (date, wage, attendance, cash given) entered in the Single Entry form.
SingleInputs ==
    {<<D1, Rs(600), FullDay, Rs(200)>>,   \* earned 600, paid 200
     <<D2, Rs(600), Absent,  Rs(-100)>>}  \* the field accepts a negative amount

\* (date, wage, attendance) entered in the Bulk Attendance form.
BulkInputs == {<<D1, Rs(600), FullDay>>, <<D2, Rs(500), HalfDay>>}

\* (date, item, category, cost) entered in the Material/Bills form.
ExpenseInputs ==
    {<<D1, "Cement", "Material", Rs(150)>>,
     <<D1, "", "Material", Rs(0)>>,        \* the form's defaults
     <<D2, "Diesel", "Transport", Rs(-30)>>}

Sessions == {1, 2}

Idle == [pc |-> "idle", ran |-> FALSE, msg |-> "", saved |-> 0,
         labor |-> EmptyDf(<<>>), exp |-> EmptyDf(<<>>)]

Init ==
    /\ fs = [f \in {LABOR_FILE, EXPENSE_FILE, PROGRESS_FILE} |-> NoFile]
    /\ df_labor = EmptyDf(<<>>)
    /\ df_exp = EmptyDf(<<>>)
    /\ df_prog = EmptyDf(<<>>)
    /\ screen = Page("", 0)
    /\ sess = [s \in Sessions |-> Idle]
    /\ acked = [f \in {LABOR_FILE, EXPENSE_FILE} |-> <<>>]

Next ==
    \/ Dashboard
    \/ BulkPage
    \/ \E in \in BulkInputs, selected \in Selections(Unique(load_data(fs, LABOR_FILE, LaborCols), "Worker")) :
          BulkSubmit(in[1], selected, in[2], in[3])
    \/ SinglePage
    \/ \E mode \in Modes, typed \in TypedNames, in \in SingleInputs :
          \E final_name \in FinalNames(load_data(fs, LABOR_FILE, LaborCols), mode, typed) :
             SingleSubmit(mode, typed, final_name, in[1], in[2], in[3], in[4])
    \/ ExpensePage
    \/ \E in \in ExpenseInputs : ExpenseSubmit(in[1], in[2], in[3], in[4])
    \/ Reports

Spec == Init /\ [][Next]_vars

----------------------------------------------------------------------------
(* Files found at start-up *)

\* labor.csv lines as another program, an editor or an earlier export may
\* have left them: Date, Worker, Role, Wage, Attendance, Paid_Today, Notes.
LaborLines ==
    {<<Text(D1), Text("Ram"), Text("Labor"), Numeral(Rs(600)), Numeral(FullDay),
       Numeral(Rs(200)), Text("Single")>>,
     <<Text(D1), Text("Ram"), Text("Labor"), Numeral(Rs(20)), Numeral(HalfDay),
       Numeral(Rs(0)), Text("Single")>>,
     <<Text(D2), Text("Sita"), Text("Regular"), Numeral(Rs(21)), Numeral(HalfDay),
       Numeral(Rs(0)), Text("Bulk")>>,
     <<Text(D2), Text("Sita"), Text("Labor"), Numeral(Rs(600)), Numeral(Absent),
       Numeral(Rs(200)), Text("Single")>>,
     <<Text(D1), Text("NA"), Text("Labor"), Numeral(Rs(600)), Numeral(FullDay),
       Numeral(Rs(0)), Text("Single")>>,
     \* a wage that is no number and an empty Paid_Today
     <<Text(D1), Text("Ram"), Text("Labor"), Text("12x"), Numeral(FullDay),
       Text(""), Text("")>>,
     \* a line that ends after the wage
     <<Text(D2), Text("Sita"), Text("Labor"), Numeral(Rs(600))>>}

\* expenses.csv lines: Date, Item, Category, Cost, Paid_To.
ExpLines ==
    {<<Text(D1), Text("Cement"), Text("Material"), Numeral(Rs(150)), Text("")>>,
     <<Text(D2), Text("Tea"), Text("Food"), Numeral(Rs(40)), Text("")>>,
     <<Text(D2), Text("Sand"), Text("Material"), Numeral(Rs(80)), Text("Raju")>>,
     \* a cost that is no number
     <<Text(D1), Text("Bricks"), Text("Other"), Text("n.a."), Text("Raju")>>}

SeqsUpTo(S, n) == UNION {[1..k -> S] : k \in 0..n}

FilesFound(columns, lines, n) ==
    {NoFile} \cup {[exists |-> TRUE, header |-> columns, lines |-> l] :
                      l \in SeqsUpTo(lines, n)}

InitDir ==
    /\ fs \in {[f \in {LABOR_FILE, EXPENSE_FILE, PROGRESS_FILE} |->
                  IF f = LABOR_FILE THEN l ELSE IF f = EXPENSE_FILE THEN e ELSE NoFile] :
                 l \in FilesFound(LaborCols, LaborLines, MaxLaborLines),
                 e \in FilesFound(ExpCols, ExpLines, MaxExpLines)}
    /\ df_labor = EmptyDf(<<>>)
    /\ df_exp = EmptyDf(<<>>)
    /\ df_prog = EmptyDf(<<>>)
    /\ screen = Page("", 0)
    /\ sess = [s \in Sessions |-> Idle]
    /\ acked = [f \in {LABOR_FILE, EXPENSE_FILE} |-> <<>>]

\* The views that only read.
NextDir == Dashboard \/ Reports

SpecDir == InitDir /\ [][NextDir]_vars

----------------------------------------------------------------------------
(* Two sessions on one directory.  Streamlit runs each session's script in *)
(* its own thread, so the loads of lines 36-38 and the branch that follows *)
(* are separate steps, and each session has its own df_labor and df_exp.   *)

NumAcked == Len(acked[LABOR_FILE]) + Len(acked[EXPENSE_FILE])

\* One line of DataFrame.to_csv.
CsvLine(row, columns) == [j \in 1..Len(columns) |-> FormatCell(row[columns[j]])]

\* Lines 35-38.
SessLoad(s) ==
    /\ sess[s].pc = "idle"
    /\ fs' = LoadAll(fs)
    /\ sess' = [sess EXCEPT ![s] =
                  [pc |-> "loaded", ran |-> TRUE, msg |-> "", saved |-> 0,
                   labor |-> load_data(fs, LABOR_FILE, LaborCols),
                   exp   |-> load_data(fs, EXPENSE_FILE, ExpCols)]]
    /\ UNCHANGED <<df_labor, df_exp, df_prog, screen, acked>>

\* A branch that only renders.
SessView(s) ==
    /\ sess[s].pc = "loaded"
    /\ sess' = [sess EXCEPT ![s].pc = "idle"]
    /\ UNCHANGED <<fs, df_labor, df_exp, df_prog, screen, acked>>

\* Lines 98-107.
SessBulk(s, date_in, selected, wage, att) ==
    LET rows == BulkRows(date_in, selected, wage, att)
        new  == Concat(sess[s].labor, FrameOf(rows, LaborCols))
    IN  /\ sess[s].pc = "loaded"
        /\ NumAcked < MaxAcked
        /\ selected \in Selections(Unique(sess[s].labor, "Worker"))
        /\ fs' = save_data(fs, new, LABOR_FILE)
        /\ sess' = [sess EXCEPT ![s].pc = "idle", ![s].labor = new,
                                ![s].msg = "Marked workers!",
                                ![s].saved = Len(selected)]
        /\ acked' = [acked EXCEPT ![LABOR_FILE] =
                        @ \o [i \in 1..Len(rows) |-> CsvLine(rows[i], LaborCols)]]
        /\ UNCHANGED <<df_labor, df_exp, df_prog, screen>>

\* Lines 133-143.
SessSingle(s, mode, typed, final_name, d_date, wage, att, paid) ==
    LET row == SingleRow(d_date, final_name, wage, att, paid)
        new == Concat(sess[s].labor, FrameOf(<<row>>, LaborCols))
    IN  /\ sess[s].pc = "loaded"
        /\ NumAcked < MaxAcked
        /\ final_name \in FinalNames(sess[s].labor, mode, typed)
        /\ IF ~Truthy(final_name)
           THEN /\ sess' = [sess EXCEPT ![s].pc = "idle",
                                        ![s].msg = "Name is required!"]
                /\ UNCHANGED <<fs, acked>>
           ELSE /\ fs' = save_data(fs, new, LABOR_FILE)
                /\ sess' = [sess EXCEPT ![s].pc = "idle", ![s].labor = new,
                                        ![s].msg = "Saved!", ![s].saved = 1]
                /\ acked' = [acked EXCEPT ![LABOR_FILE] =
                                Append(@, CsvLine(row, LaborCols))]
        /\ UNCHANGED <<df_labor, df_exp, df_prog, screen>>

\* Lines 157-163.
SessExpense(s, d_date, item, cat, cost) ==
    LET row == ExpenseRow(d_date, item, cat, cost)
        new == Concat(sess[s].exp, FrameOf(<<row>>, ExpCols))
    IN  /\ sess[s].pc = "loaded"
        /\ NumAcked < MaxAcked
        /\ fs' = save_data(fs, new, EXPENSE_FILE)
        /\ sess' = [sess EXCEPT ![s].pc = "idle", ![s].exp = new,
                                ![s].msg = "Expense Saved!", ![s].saved = 1]
        /\ acked' = [acked EXCEPT ![EXPENSE_FILE] = Append(@, CsvLine(row, ExpCols))]
        /\ UNCHANGED <<df_labor, df_exp, df_prog, screen>>

NextConc ==
    \E s \in Sessions :
       \/ SessLoad(s)
       \/ SessView(s)
       \/ \E in \in BulkInputs, selected \in Selections(Unique(sess[s].labor, "Worker")) :
             SessBulk(s, in[1], selected, in[2], in[3])
       \/ \E mode \in Modes, typed \in TypedNames, in \in SingleInputs :
             \E final_name \in FinalNames(sess[s].labor, mode, typed) :
                SessSingle(s, mode, typed, final_name, in[1], in[2], in[3], in[4])
       \/ \E in \in ExpenseInputs : SessExpense(s, in[1], in[2], in[3], in[4])

SpecConc == Init /\ [][NextConc]_vars

----------------------------------------------------------------------------
(* Properties *)

Lines(dir, f) == IF dir[f].exists THEN dir[f].lines ELSE <<>>

IsPrefix(a, b) == Len(a) <= Len(b) /\ \A i \in 1..Len(a) : a[i] = b[i]

Last(seq) == seq[Len(seq)]

\* Column positions in the two files.
Col(columns, c) == CHOOSE j \in 1..Len(columns) : columns[j] = c

\* The number a field of a file line stands for: 0 when the field is
\* missing or is no numeral.
FieldNum(line, j) ==
    IF j <= Len(line) /\ line[j].t = "numeral" THEN line[j].n ELSE 0

\* The text of a field, empty when the field is missing.
FieldText(line, j) == IF j <= Len(line) THEN line[j] ELSE Text("")

RECURSIVE SumSeq(_)
SumSeq(ns) == IF ns = <<>> THEN 0 ELSE ns[1] + SumSeq(Tail(ns))

SumLines(lines, F(_)) == SumSeq([i \in 1..Len(lines) |-> F(lines[i])])

LineEarned(line) == (FieldNum(line, 4) * FieldNum(line, 5)) \div 2
LinePaid(line)   == FieldNum(line, 6)
LineCost(line)   == FieldNum(line, 4)

\* The Dashboard branch has rendered (its chart always has a row).
DashboardShown == screen.spending_data # <<>>

\* C1: each ledger is append-only: over every step, the lines of labor.csv
\* and of expenses.csv before the step are a prefix of the lines after it.
C1_AppendOnly ==
    [][/\ IsPrefix(Lines(fs, LABOR_FILE), Lines(fs', LABOR_FILE))
       /\ IsPrefix(Lines(fs, EXPENSE_FILE), Lines(fs', EXPENSE_FILE))]_vars

\* C2: a Single Entry submission with an empty name shows the error and
\* leaves the ledger as it was, in memory and on disk; one with a non-empty
\* name appends exactly one record, with that name and Notes = "Single".
C2_SingleEntryValidation ==
    [][\A mode \in Modes, typed \in TypedNames, in \in SingleInputs :
         \A name \in FinalNames(load_data(fs, LABOR_FILE, LaborCols), mode, typed) :
            SingleSubmit(mode, typed, name, in[1], in[2], in[3], in[4]) =>
               LET before == Lines(fs, LABOR_FILE)
                   after  == Lines(fs', LABOR_FILE)
               IN  IF name = Str("")
                   THEN /\ screen'.msg = "Name is required!"
                        /\ after = before
                        /\ Len(df_labor'.rows) = Len(before)
                        /\ df_labor' = load_data(fs, LABOR_FILE, LaborCols)
                   ELSE name.k = "str" =>
                        /\ screen'.msg = "Saved!"
                        /\ Len(after) = Len(before) + 1
                        /\ Len(df_labor'.rows) = Len(before) + 1
                        /\ Last(after)[Col(LaborCols, "Worker")] = Text(name.s)
                        /\ Last(after)[Col(LaborCols, "Notes")] = Text("Single")
                        /\ Last(df_labor'.rows).Notes = Str("Single")]_vars

\* C2 witness: the error is on screen although the ledger already has rows.
C2_Witness ==
    /\ screen.msg = "Name is required!"
    /\ Len(Lines(fs, LABOR_FILE)) >= 1

\* The workers named in labor.csv, and what is due to each by the file.
FileWorkers ==
    {l[2].s : l \in {x \in Range(Lines(fs, LABOR_FILE)) :
                        Len(x) >= 2 /\ x[2].s \notin NaValues}}

FileDue(w) ==
    LET mine == SelectSeq(Lines(fs, LABOR_FILE), LAMBDA l : l[2].s = w)
    IN  SumLines(mine, LineEarned) - SumLines(mine, LinePaid)

\* C3: the Pending Dues list holds exactly the workers with more than 10
\* due, each once with that balance, highest balance first.
C3_PendingDues ==
    DashboardShown =>
       LET p == screen.pending
       IN  /\ {p[i].Worker : i \in 1..Len(p)} = {w \in FileWorkers : FileDue(w) > Rs(10)}
           /\ Len(p) = Cardinality({w \in FileWorkers : FileDue(w) > Rs(10)})
           /\ \A i \in 1..Len(p) : p[i].Balance_Due = FileDue(p[i].Worker)
           /\ \A i \in 1..Len(p) - 1 : p[i].Balance_Due >= p[i + 1].Balance_Due

\* C3 witness: one worker is owed exactly 10 and is left out while another
\* is listed.
C3_Witness ==
    /\ DashboardShown
    /\ \E w \in FileWorkers : FileDue(w) = Rs(10)
    /\ Len(screen.pending) >= 1

\* C4: labor_due is the sum of Wage x Attendance minus the sum of
\* Paid_Today, negative when more was paid than earned and 0 on an empty
\* ledger; for the single record Ram/600/1.0/200 without expenses the
\* totals are 600, 200, 400 and 200.
C4_LaborDue ==
    DashboardShown =>
       LET lines == Lines(fs, LABOR_FILE)
       IN  /\ screen.labor_due = SumLines(lines, LineEarned) - SumLines(lines, LinePaid)
           /\ lines = <<>> => screen.labor_due = 0
           /\ ( /\ lines = << <<Text(D1), Text("Ram"), Text("Labor"), Numeral(Rs(600)),
                                Numeral(FullDay), Numeral(Rs(200)), Text("Single")>> >>
                /\ Lines(fs, EXPENSE_FILE) = <<>> )
              => /\ screen.total_labor_earned = Rs(600)
                 /\ screen.total_labor_paid = Rs(200)
                 /\ screen.labor_due = Rs(400)
                 /\ screen.grand_total = Rs(200)

\* C4 witness: more was paid than earned and the due amount is negative.
C4_Witness ==
    /\ DashboardShown
    /\ Lines(fs, LABOR_FILE) # <<>>
    /\ screen.labor_due < 0

\* The categories named in expenses.csv.
FileCategories == {l[3].s : l \in Range(Lines(fs, EXPENSE_FILE))}

\* C5: the spending chart has one row per category of the expense ledger,
\* with the sum of its costs, and exactly one more row, 'Labor Payments',
\* with the total paid of the attendance ledger; on an empty expense ledger
\* that row is the only one.
C5_SpendByCategory ==
    DashboardShown =>
       LET sd   == screen.spending_data
           paid == SumLines(Lines(fs, LABOR_FILE), LinePaid)
       IN  /\ Len(sd) = Cardinality(FileCategories) + 1
           /\ {sd[i].Category : i \in 1..Len(sd) - 1} = FileCategories
           /\ \A i \in 1..Len(sd) - 1 :
                 sd[i].Cost = SumLines(SelectSeq(Lines(fs, EXPENSE_FILE),
                                                 LAMBDA l : l[3].s = sd[i].Category),
                                       LineCost)
           /\ Last(sd) = [Category |-> "Labor Payments", Cost |-> paid]
           /\ Cardinality({i \in 1..Len(sd) : sd[i].Category = "Labor Payments"}) = 1
           /\ Lines(fs, EXPENSE_FILE) = <<>> =>
                 sd = <<[Category |-> "Labor Payments", Cost |-> paid]>>

\* C5 witness: two expenses of one category are summed next to a non-zero
\* 'Labor Payments' row.
C5_Witness ==
    /\ DashboardShown
    /\ Len(Lines(fs, EXPENSE_FILE)) = 2
    /\ Len(screen.spending_data) = 2
    /\ Last(screen.spending_data).Cost > 0

\* C6: a Bulk Attendance submission with the workers `selected` appends one
\* record per selected worker, in memory and on disk, each with the
\* submitted date, wage and attendance, Paid_Today = 0 and Notes = "Bulk".
C6_BulkAppends ==
    [][\A in \in BulkInputs :
         \A selected \in Selections(Unique(load_data(fs, LABOR_FILE, LaborCols), "Worker")) :
            BulkSubmit(in[1], selected, in[2], in[3]) =>
               LET before == Lines(fs, LABOR_FILE)
                   after  == Lines(fs', LABOR_FILE)
               IN  /\ Len(after) = Len(before) + Len(selected)
                   /\ Len(df_labor'.rows) = Len(before) + Len(selected)
                   /\ screen'.marked = Len(selected)
                   /\ \A i \in 1..Len(selected) :
                         /\ after[Len(before) + i] =
                               <<Text(in[1]), FormatCell(selected[i]), Text("Regular"),
                                 Numeral(in[2]), Numeral(in[3]), Numeral(0), Text("Bulk")>>
                         /\ df_labor'.rows[Len(before) + i].Worker = selected[i]
                         /\ df_labor'.rows[Len(before) + i].Wage = Num(in[2])
                         /\ df_labor'.rows[Len(before) + i].Attendance = Num(in[3])
                         /\ df_labor'.rows[Len(before) + i].Paid_Today = Num(0)
                         /\ df_labor'.rows[Len(before) + i].Notes = Str("Bulk")]_vars

\* C6 witness: two workers have been marked in one submission.
C6_Witness ==
    /\ screen.msg = "Marked workers!"
    /\ screen.marked = 2
    /\ Len(Lines(fs, LABOR_FILE)) >= 4

\* C7: after a submission has saved a table, loading the file gives back
\* the table that was saved: same columns, same rows, same cells.
C7_RoundTrip ==
    /\ screen.msg = "Expense Saved!" =>
          load_data(fs, EXPENSE_FILE, ExpCols) = df_exp
    /\ screen.msg \in {"Saved!", "Marked workers!"} =>
          load_data(fs, LABOR_FILE, LaborCols) = df_labor

\* The cell a field of a file must load as.
LoadsAs(field, c) ==
    IF c \in {"Wage", "Attendance", "Paid_Today", "Cost"}
    THEN (IF field.t = "numeral" THEN Num(field.n) ELSE Num(0))
    ELSE (IF field.s \in {"", "NA", "nan", "null"} THEN NaN ELSE Str(field.s))

LoadedRight(df, file) ==
    /\ Len(df.rows) = Len(file.lines)
    /\ \A i \in 1..Len(file.lines), j \in 1..Len(file.header) :
          /\ df.rows[i][file.header[j]] = LoadsAs(FieldText(file.lines[i], j), file.header[j])
          /\ file.header[j] \in numeric_cols => df.rows[i][file.header[j]].k = "num"

\* C8: after a load, every line of the file is a row of the table; a cell
\* of Wage, Attendance, Paid_Today or Cost is the number written in the
\* file, or 0 when the field is missing or no number, never NaN; the other
\* cells of the row are as read.
C8_LoadCoercesToZero ==
    df_exp.columns # <<>> =>
       /\ LoadedRight(df_labor, fs[LABOR_FILE])
       /\ LoadedRight(df_exp, fs[EXPENSE_FILE])

\* C8 witness: a line whose wage is no number and whose Paid_Today is empty
\* has been loaded after a well-formed line.
C8_Witness ==
    /\ df_exp.columns # <<>>
    /\ Len(df_labor.rows) = 2
    /\ fs[LABOR_FILE].lines[2][4] = Text("12x")
    /\ fs[LABOR_FILE].lines[2][6] = Text("")
    /\ fs[LABOR_FILE].lines[1][4].t = "numeral"
    /\ df_labor.rows[2].Wage = Num(0)

\* C9: every record of the ledgers has Wage >= 0, Paid_Today >= 0 and
\* Cost >= 0.
C9_NonNegative ==
    /\ \A l \in Range(Lines(fs, LABOR_FILE)) : FieldNum(l, 4) >= 0 /\ FieldNum(l, 6) >= 0
    /\ \A l \in Range(Lines(fs, EXPENSE_FILE)) : FieldNum(l, 4) >= 0
    /\ \A i \in 1..Len(df_labor.rows) :
          df_labor.rows[i].Wage.n >= 0 /\ df_labor.rows[i].Paid_Today.n >= 0
    /\ \A i \in 1..Len(df_exp.rows) : df_exp.rows[i].Cost.n >= 0

\* The last n elements of a sequence.
Tail_n(seq, n) == SubSeq(seq, Len(seq) - n + 1, Len(seq))

\* C10: while only one session has run, every submission that showed
\* success is in the file: the file has as many lines as were acknowledged
\* and, right after a submission, its last lines are the records submitted.
\* (With two sessions this is lost: see the witness.)
C10_OneSessionKeepsAll ==
    Cardinality({s \in Sessions : sess[s].ran}) <= 1 =>
       /\ \A f \in {LABOR_FILE, EXPENSE_FILE} : Len(Lines(fs, f)) = Len(acked[f])
       /\ \A s \in Sessions :
             /\ sess[s].msg \in {"Saved!", "Marked workers!"} =>
                   Tail_n(Lines(fs, LABOR_FILE), sess[s].saved)
                      = Tail_n(acked[LABOR_FILE], sess[s].saved)
             /\ sess[s].msg = "Expense Saved!" =>
                   Last(Lines(fs, EXPENSE_FILE)) = Last(acked[EXPENSE_FILE])

\* C10 witness: two sessions have loaded and then both saved; two Single
\* Entry submissions showed "Saved!" and the file holds one line.
C10_Witness ==
    /\ \A s \in Sessions : sess[s].msg = "Saved!" /\ sess[s].pc = "idle"
    /\ Len(acked[LABOR_FILE]) = 2
    /\ Len(Lines(fs, LABOR_FILE)) = 1

====
